---- MODULE Spec2Model ----
(***************************************************************************)
(* A model of the bsx arbitrary-base codec: alphabet construction          *)
(* (src/src/alphabet.rs), the encode engine and its output targets         *)
(* (src/src/encode.rs) and the decode engine (src/src/decode.rs).          *)
(*                                                                         *)
(* Byte strings are sequences of numbers in 0..255 (1-indexed here, the    *)
(* Rust index i is position i+1).  A call that ends in a Rust panic is     *)
(* recorded with tag "Panic"; nothing runs after it.                       *)
(***************************************************************************)
EXTENDS Integers, Sequences, FiniteSets, TLC

(***************************************************************************)
(* Bounds of the model.                                                    *)
(***************************************************************************)
\* longest byte sequence handed to encode
MaxInputLen == 2
\* longest symbol string handed to decode
MaxStrLen == 3
\* largest capacity of a caller-provided fixed buffer
MaxCap == 4
\* longest of the systematically enumerated symbol lists
MaxBaseLen == 3

(***************************************************************************)
(* Program constants.                                                      *)
(***************************************************************************)
\* the "absent" marker of the decode table: `[0xFF; 128]`
Absent == 255
\* size of the decode table, and the first non-ASCII byte value
AsciiLimit == 128

(***************************************************************************)
(* Small helpers for slices and machine integers.                          *)
(***************************************************************************)

\* the sequence of n copies of v
Repeat(v, n) == [k \in 1..n |-> v]

\* s[..n]
Take(s, n) == SubSeq(s, 1, n)

\* s[n..]
Drop(s, n) == SubSeq(s, n + 1, Len(s))

\* a variant of ReversePrefix that reverses the whole buffer
ReversePrefix_Whole(s, index) ==
    [k \in 1..Len(s) |-> s[Len(s) + 1 - k]]

\* `output[..index].reverse()`: the first index bytes reversed in place
ReversePrefix(s, index) ==
    [k \in 1..Len(s) |-> IF k <= index THEN s[index + 1 - k] ELSE s[k]]

\* `input.iter().take_while(|v| v == zero).count()`
RECURSIVE TakeWhileEq(_, _)
TakeWhileEq(s, zero) ==
    IF s = <<>> \/ s[1] # zero THEN 0 ELSE 1 + TakeWhileEq(Tail(s), zero)

\* usize::is_power_of_two
RECURSIVE is_power_of_two(_)
is_power_of_two(n) ==
    IF n <= 0 THEN FALSE
    ELSE IF n = 1 THEN TRUE
    ELSE IF n % 2 = 1 THEN FALSE
    ELSE is_power_of_two(n \div 2)

\* usize::trailing_zeros, for n > 0
RECURSIVE trailing_zeros(_)
trailing_zeros(n) == IF n % 2 = 1 THEN 0 ELSE 1 + trailing_zeros(n \div 2)

\* number of significant bits of n: usize::BITS - n.leading_zeros()
RECURSIVE BitLen(_)
BitLen(n) == IF n = 0 THEN 0 ELSE 1 + BitLen(n \div 2)

(***************************************************************************)
(* Evaluation order.  A Rust `let` computes its value once; to make the    *)
(* model do the same, the value of e is bound to x by                      *)
(*     Only({ body : x \in {e} })                                          *)
(* wherever a loop carries a value from one iteration to the next.         *)
(***************************************************************************)
Only(S) == CHOOSE x \in S : TRUE

(***************************************************************************)
(* core::str::from_utf8: whether a byte string is well-formed UTF-8.       *)
(***************************************************************************)
IsCont(b) == b >= 128 /\ b <= 191

\* length of the well-formed character starting at s[1], or 0 if there is none
Utf8CharLen(s) ==
    LET n == Len(s)
        b == s[1]
    IN  IF b < 128 THEN 1
        ELSE IF b >= 194 /\ b <= 223
            THEN IF n >= 2 /\ IsCont(s[2]) THEN 2 ELSE 0
        ELSE IF b >= 224 /\ b <= 239
            THEN IF n >= 3 /\ IsCont(s[2]) /\ IsCont(s[3])
                    /\ (b = 224 => s[2] >= 160)
                    /\ (b = 237 => s[2] <= 159)
                 THEN 3 ELSE 0
        ELSE IF b >= 240 /\ b <= 244
            THEN IF n >= 4 /\ IsCont(s[2]) /\ IsCont(s[3]) /\ IsCont(s[4])
                    /\ (b = 240 => s[2] >= 144)
                    /\ (b = 244 => s[2] <= 143)
                 THEN 4 ELSE 0
        ELSE 0

RECURSIVE from_utf8_ok(_)
from_utf8_ok(s) ==
    IF s = <<>> THEN TRUE
    ELSE LET k == Utf8CharLen(s)
         IN  IF k = 0 THEN FALSE ELSE from_utf8_ok(Drop(s, k))

\* Utf8Error::valid_up_to: the length of the longest well-formed prefix
RECURSIVE valid_up_to(_)
valid_up_to(s) ==
    IF s = <<>> THEN 0
    ELSE Only({ IF k = 0 THEN 0 ELSE k + valid_up_to(Drop(s, k))
                : k \in {Utf8CharLen(s)} })

\* Utf8Error::error_len for s starting at an ill-formed sequence: 0 stands
\* for None (the input ended inside a character), else Some(1), Some(2) or
\* Some(3), the bytes to skip
error_len(s) ==
    LET n == Len(s)
        b == s[1]
        second_ok ==
            /\ IsCont(s[2])
            /\ (b = 224 => s[2] >= 160)
            /\ (b = 237 => s[2] <= 159)
            /\ (b = 240 => s[2] >= 144)
            /\ (b = 244 => s[2] <= 143)
    IN  IF b < 194 \/ b > 244 THEN 1
        ELSE IF n < 2 THEN 0
        ELSE IF ~second_ok THEN 1
        ELSE IF b <= 223 THEN 1
        ELSE IF n < 3 THEN 0
        ELSE IF ~IsCont(s[3]) THEN 2
        ELSE IF b <= 239 THEN 1
        ELSE IF n < 4 THEN 0
        ELSE 3

(***************************************************************************)
(* Alphabet construction.                                                  *)
(***************************************************************************)
\* a variant of AlphabetNewLoop that reports the two indices of a duplicate
\* in the wrong order
RECURSIVE AlphabetNewLoop_Swapped(_, _, _)
AlphabetNewLoop_Swapped(base, i, decode) ==
    IF i = Len(base)
    THEN [tag |-> "Ok", encode |-> base, decode |-> decode]
    ELSE LET c == base[i + 1]
         IN  IF c >= AsciiLimit
             THEN [tag |-> "NonAsciiCharacter", index |-> i]
             ELSE IF decode[c] # Absent
             THEN [tag |-> "DuplicateCharacter", character |-> c,
                   first |-> i, second |-> decode[c]]
             ELSE AlphabetNewLoop_Swapped(base, i + 1,
                                          [decode EXCEPT ![c] = i % 256])

\* the loop of DynamicAlphabet::new, from index i with the table built so far
RECURSIVE AlphabetNewLoop(_, _, _)
AlphabetNewLoop(base, i, decode) ==
    IF i = Len(base)
    THEN [tag |-> "Ok", encode |-> base, decode |-> decode]
    ELSE LET c == base[i + 1]
         IN  IF c >= AsciiLimit
             THEN [tag |-> "NonAsciiCharacter", index |-> i]
             ELSE IF decode[c] # Absent
             THEN [tag |-> "DuplicateCharacter", character |-> c,
                   first |-> decode[c], second |-> i]
             ELSE AlphabetNewLoop(base, i + 1,
                                  [decode EXCEPT ![c] = i % 256])

\* DynamicAlphabet::new(base)
DynamicAlphabet_new(base) ==
    AlphabetNewLoop(base, 0, [c \in 0..(AsciiLimit - 1) |-> Absent])

\* Alphabet::len
alpha_len(alpha) == Len(alpha.encode)

\* a variant of StaticAlphabetNewLoop that stores each digit one too high
RECURSIVE StaticAlphabetNewLoop_OffByOne(_, _, _, _)
StaticAlphabetNewLoop_OffByOne(base, i, encode, decode) ==
    IF i >= Len(encode)
    THEN [tag |-> "Ok", encode |-> encode, decode |-> decode]
    ELSE LET c == base[i + 1]
         IN  IF c >= AsciiLimit
             THEN [tag |-> "NonAsciiCharacter", index |-> i]
             ELSE IF decode[c] # Absent
             THEN [tag |-> "DuplicateCharacter", character |-> c,
                   first |-> decode[c], second |-> i]
             ELSE StaticAlphabetNewLoop_OffByOne(base, i + 1,
                                        [encode EXCEPT ![i + 1] = c],
                                        [decode EXCEPT ![c] = (i + 1) % 256])

\* StaticAlphabet::new(base): the same scan, copying base into `encode`
RECURSIVE StaticAlphabetNewLoop(_, _, _, _)
StaticAlphabetNewLoop(base, i, encode, decode) ==
    IF i >= Len(encode)
    THEN [tag |-> "Ok", encode |-> encode, decode |-> decode]
    ELSE LET c == base[i + 1]
         IN  IF c >= AsciiLimit
             THEN [tag |-> "NonAsciiCharacter", index |-> i]
             ELSE IF decode[c] # Absent
             THEN [tag |-> "DuplicateCharacter", character |-> c,
                   first |-> decode[c], second |-> i]
             ELSE StaticAlphabetNewLoop(base, i + 1,
                                        [encode EXCEPT ![i + 1] = c],
                                        [decode EXCEPT ![c] = i % 256])

StaticAlphabet_new(base) ==
    StaticAlphabetNewLoop(base, 0, Repeat(0, Len(base)),
                          [c \in 0..(AsciiLimit - 1) |-> Absent])

\* StaticAlphabet::new_unwrap(base): indexes an empty array on Err
StaticAlphabet_new_unwrap(base) ==
    LET result == StaticAlphabet_new(base)
    IN  IF result.tag = "Ok" THEN result ELSE [tag |-> "Panic"]

\* b"123456789ABCDEFGHJKLMNPQRSTUVWXYZabcdefghijkmnopqrstuvwxyz"
BITCOIN_BASE ==
    <<49, 50, 51, 52, 53, 54, 55, 56, 57,
      65, 66, 67, 68, 69, 70, 71, 72, 74, 75, 76, 77, 78, 80,
      81, 82, 83, 84, 85, 86, 87, 88, 89, 90,
      97, 98, 99, 100, 101, 102, 103, 104, 105, 106, 107, 109, 110,
      111, 112, 113, 114, 115, 116, 117, 118, 119, 120, 121, 122>>

\* StaticAlphabet::<58>::BITCOIN
BITCOIN == StaticAlphabet_new_unwrap(BITCOIN_BASE)

(***************************************************************************)
(* The encode engine: encode_into(input, output, alpha).                   *)
(* The accumulator lives in output[..index], least significant digit       *)
(* first.  Loop results carry tag "run" while the function continues.      *)
(***************************************************************************)
\* one slot of `for byte in &mut output[..index]`: slot j (0-based)
EncodePassStep(output, j, carry, len) ==
    Only({ [output |-> [output EXCEPT ![j + 1] = (c % len) % 256],
            carry  |-> c \div len]
           : c \in {carry + output[j + 1] * 256} })

\* `for byte in &mut output[..index]`: slots j..index-1 still to be updated
RECURSIVE EncodePass(_, _, _, _, _)
EncodePass(output, j, index, carry, len) ==
    IF j >= index
    THEN [tag |-> "run", output |-> output, carry |-> carry]
    ELSE IF len = 0
    THEN [tag |-> "Panic", output |-> output, carry |-> carry]
    ELSE Only({ EncodePass(s.output, j + 1, index, s.carry, len)
                : s \in {EncodePassStep(output, j, carry, len)} })

\* a variant of EncodeAppend that asks for one spare slot before it appends
RECURSIVE EncodeAppend_SpareSlot(_, _, _, _)
EncodeAppend_SpareSlot(output, index, carry, len) ==
    IF carry <= 0
    THEN [tag |-> "run", output |-> output, index |-> index]
    ELSE IF index + 1 >= Len(output)
    THEN [tag |-> "BufferTooSmall", output |-> output, index |-> index]
    ELSE IF len = 0
    THEN [tag |-> "Panic", output |-> output, index |-> index]
    ELSE Only({ EncodeAppend_SpareSlot(o, index + 1, carry \div len, len)
                : o \in {[output EXCEPT ![index + 1] = (carry % len) % 256]} })

\* `while carry > 0`: append the digits of the remaining carry
RECURSIVE EncodeAppend(_, _, _, _)
EncodeAppend(output, index, carry, len) ==
    IF carry <= 0
    THEN [tag |-> "run", output |-> output, index |-> index]
    ELSE IF index = Len(output)
    THEN [tag |-> "BufferTooSmall", output |-> output, index |-> index]
    ELSE IF len = 0
    THEN [tag |-> "Panic", output |-> output, index |-> index]
    ELSE Only({ EncodeAppend(o, index + 1, carry \div len, len)
                : o \in {[output EXCEPT ![index + 1] = (carry % len) % 256]} })

\* the body of `for &val in input`
EncodeByte(val, output, index, len) ==
    Only({ IF p.tag # "run"
           THEN [tag |-> p.tag, output |-> p.output, index |-> index]
           ELSE EncodeAppend(p.output, index, p.carry, len)
           : p \in {EncodePass(output, 0, index, val, len)} })

\* `for &val in input`, from input position i
RECURSIVE EncodeBytes(_, _, _, _, _)
EncodeBytes(input, i, output, index, len) ==
    IF i >= Len(input)
    THEN [tag |-> "run", output |-> output, index |-> index]
    ELSE Only({ IF a.tag # "run" THEN a
                ELSE EncodeBytes(input, i + 1, a.output, a.index, len)
                : a \in {EncodeByte(input[i + 1], output, index, len)} })

\* a variant of EncodeLeadingZeros that appends one zero digit too few
RECURSIVE EncodeLeadingZeros_OneShort(_, _, _)
EncodeLeadingZeros_OneShort(n, output, index) ==
    IF n <= 1
    THEN [tag |-> "run", output |-> output, index |-> index]
    ELSE IF index = Len(output)
    THEN [tag |-> "BufferTooSmall", output |-> output, index |-> index]
    ELSE Only({ EncodeLeadingZeros_OneShort(n - 1, o, index + 1)
                : o \in {[output EXCEPT ![index + 1] = 0]} })

\* `for _ in input.iter().take_while(|&&v| v == 0)`: n zero digits to append
RECURSIVE EncodeLeadingZeros(_, _, _)
EncodeLeadingZeros(n, output, index) ==
    IF n = 0
    THEN [tag |-> "run", output |-> output, index |-> index]
    ELSE IF index = Len(output)
    THEN [tag |-> "BufferTooSmall", output |-> output, index |-> index]
    ELSE Only({ EncodeLeadingZeros(n - 1, o, index + 1)
                : o \in {[output EXCEPT ![index + 1] = 0]} })

\* a variant of EncodeMap that maps every byte of the buffer, not only the
\* digits written
EncodeMap_WholeBuffer(output, index, encode) ==
    IF \E k \in 1..Len(output) : output[k] >= Len(encode)
    THEN [tag |-> "Panic", output |-> output, index |-> index]
    ELSE [tag |-> "run",
          output |-> [k \in 1..Len(output) |-> encode[output[k] + 1]],
          index |-> index]

\* `*val = encode[*val as usize]` over output[..index]; the index is checked
EncodeMap(output, index, encode) ==
    IF \E k \in 1..index : output[k] >= Len(encode)
    THEN [tag |-> "Panic", output |-> output, index |-> index]
    ELSE [tag |-> "run",
          output |-> [k \in 1..Len(output) |->
                        IF k <= index THEN encode[output[k] + 1] ELSE output[k]],
          index |-> index]

\* a variant of EncodeFinish that leaves the digits least significant first
EncodeFinish_NoReverse(a, input, encode) ==
    IF a.tag # "run"
    THEN [tag |-> a.tag, len |-> 0, output |-> a.output]
    ELSE Only({
           IF z.tag # "run"
           THEN [tag |-> z.tag, len |-> 0, output |-> z.output]
           ELSE Only({
                  IF m.tag # "run"
                  THEN [tag |-> m.tag, len |-> 0, output |-> m.output]
                  ELSE [tag |-> "Ok", len |-> m.index, output |-> m.output]
                  : m \in {EncodeMap(z.output, z.index, encode)} })
           : z \in {EncodeLeadingZeros(TakeWhileEq(input, 0), a.output, a.index)} })

\* encode_into after the loop over the input: leading zeros, map, reverse
EncodeFinish(a, input, encode) ==
    IF a.tag # "run"
    THEN [tag |-> a.tag, len |-> 0, output |-> a.output]
    ELSE Only({
           IF z.tag # "run"
           THEN [tag |-> z.tag, len |-> 0, output |-> z.output]
           ELSE Only({
                  IF m.tag # "run"
                  THEN [tag |-> m.tag, len |-> 0, output |-> m.output]
                  ELSE [tag |-> "Ok", len |-> m.index,
                        output |-> ReversePrefix(m.output, m.index)]
                  : m \in {EncodeMap(z.output, z.index, encode)} })
           : z \in {EncodeLeadingZeros(TakeWhileEq(input, 0), a.output, a.index)} })

encode_into(input, output, alpha) ==
    Only({ EncodeFinish(a, input, alpha.encode)
           : a \in {EncodeBytes(input, 0, output, 0, alpha_len(alpha))} })

(***************************************************************************)
(* Output targets (EncodeTarget::encode_with).  The closure f is always    *)
(* `|output| encode_into(input, output, alpha)`, so the targets take input *)
(* and alpha.  Each returns the call's result and the target's bytes       *)
(* after the call.                                                         *)
(***************************************************************************)
\* Vec::resize(max_len, 0)
VecResize(self, new_len, value) ==
    [k \in 1..new_len |-> IF k <= Len(self) THEN self[k] ELSE value]

\* a variant of Vec_encode_with that does not truncate to the length written
Vec_encode_with_NoTruncate(self, max_len, input, alpha) ==
    encode_into(input, VecResize(self, max_len, 0), alpha)

\* impl EncodeTarget for Vec<u8>
Vec_encode_with(self, max_len, input, alpha) ==
    Only({ IF r.tag = "Ok"
           THEN [tag |-> "Ok", len |-> r.len, output |-> Take(r.output, r.len)]
           ELSE r
           : r \in {encode_into(input, VecResize(self, max_len, 0), alpha)} })

\* impl EncodeTarget for String: on Err the string is left empty
String_encode_with(self, max_len, input, alpha) ==
    Only({ IF r.tag # "Ok"
           THEN [tag |-> r.tag, len |-> 0, output |-> <<>>]
           ELSE IF from_utf8_ok(r.output)
           THEN r
           ELSE [tag |-> "Panic", len |-> 0, output |-> <<>>]
           : r \in {Vec_encode_with(self, max_len, input, alpha)} })

\* impl EncodeTarget for [u8]
Slice_encode_with(self, max_len, input, alpha) ==
    encode_into(input, self, alpha)

\* `for i in &mut self.0[from..to] { *i = 0 }`, 0-based and end-exclusive
ZeroRange(bytes, from, to) ==
    [k \in 1..Len(bytes) |-> IF k > from /\ k <= to THEN 0 ELSE bytes[k]]

\* a variant of GuardDrop that zeroes the rest of the buffer at the first
\* ill-formed sequence
RECURSIVE GuardDrop_ZeroRest(_, _)
GuardDrop_ZeroRest(bytes, index) ==
    IF from_utf8_ok(Drop(bytes, index))
    THEN bytes
    ELSE Only({ GuardDrop_ZeroRest(ZeroRange(bytes, at, Len(bytes)), Len(bytes))
                : at \in {index + valid_up_to(Drop(bytes, index))} })

\* Guard::drop: the loop that zeroes every ill-formed sequence of the buffer
RECURSIVE GuardDrop(_, _)
GuardDrop(bytes, index) ==
    IF from_utf8_ok(Drop(bytes, index))
    THEN bytes
    ELSE Only({
           Only({ IF len # 0
                  THEN GuardDrop(ZeroRange(bytes, at, at + len), at + len)
                  ELSE GuardDrop(ZeroRange(bytes, at, Len(bytes)), Len(bytes))
                  : len \in {error_len(Drop(bytes, at))} })
           : at \in {index + valid_up_to(Drop(bytes, index))} })

\* a variant of Str_encode_with without the guard
Str_encode_with_NoGuard(self, max_len, input, alpha) ==
    encode_into(input, self, alpha)

\* impl EncodeTarget for str: the bytes are written in place and the guard
\* repairs the buffer when the closure returns
Str_encode_with(self, max_len, input, alpha) ==
    Only({ IF r.tag = "Panic"
           THEN r
           ELSE [r EXCEPT !.output = GuardDrop(r.output, 0)]
           : r \in {encode_into(input, self, alpha)} })

(***************************************************************************)
(* EncodeBuilder::into and its wrappers.                                   *)
(***************************************************************************)
\* `encoded_len_divisor`.  The subtraction is done in u32; for len = 0 it
\* overflows: a build with overflow checks panics, a build without wraps to
\* 2^32 - 1, which is kept here as its two's complement representative -1.
encoded_len_divisor(len, overflow_checks) ==
    IF is_power_of_two(len)
    THEN [tag |-> "run", val |-> trailing_zeros(len)]
    ELSE IF BitLen(len) - 1 < 0
    THEN IF overflow_checks
         THEN [tag |-> "Panic", val |-> 0]
         ELSE [tag |-> "run", val |-> -1]
    ELSE [tag |-> "run", val |-> BitLen(len) - 1]

\* a / d in usize, for 0 <= a < 2^31 and d # 0; a negative d stands for the
\* wrapped value 2^32 + d, which exceeds a
UsizeDiv(a, d) == IF d < 0 THEN 0 ELSE a \div d

\* a variant of max_encoded_len without the spare slot
max_encoded_len_NoSpare(input_len, divisor) ==
    IF divisor = 0
    THEN [tag |-> "Panic", val |-> 0]
    ELSE [tag |-> "run", val |-> UsizeDiv(input_len * 8, divisor)]

\* `(self.input.as_ref().len() * 8) / encoded_len_divisor + 1`
max_encoded_len(input_len, divisor) ==
    IF divisor = 0
    THEN [tag |-> "Panic", val |-> 0]
    ELSE [tag |-> "run", val |-> UsizeDiv(input_len * 8, divisor) + 1]

\* the destination kinds of `output: impl EncodeTarget`
encode_with(kind, self, max_len, input, alpha) ==
    CASE kind = "vec"    -> Vec_encode_with(self, max_len, input, alpha)
      [] kind = "string" -> String_encode_with(self, max_len, input, alpha)
      [] kind = "slice"  -> Slice_encode_with(self, max_len, input, alpha)
      [] kind = "str"    -> Str_encode_with(self, max_len, input, alpha)

\* the length handed to encode_with, or the panic that prevents the call
EncodeBuilder_max_len(input, alpha, overflow_checks) ==
    Only({ IF d.tag # "run" THEN d ELSE max_encoded_len(Len(input), d.val)
           : d \in {encoded_len_divisor(alpha_len(alpha), overflow_checks)} })

\* EncodeBuilder::into(self, output)
EncodeBuilder_into(input, alpha, kind, output, overflow_checks) ==
    Only({ IF m.tag # "run"
           THEN [tag |-> "Panic", len |-> 0, output |-> output]
           ELSE encode_with(kind, output, m.val, input, alpha)
           : m \in {EncodeBuilder_max_len(input, alpha, overflow_checks)} })

\* Result::unwrap on the result of `into`: an Err value becomes a panic that
\* names it
Unwrap(r) ==
    IF r.tag \in {"Ok", "Panic"} THEN r
    ELSE [tag |-> "Panic", len |-> 0, output |-> <<>>, unwrap_err |-> r.tag]

\* EncodeBuilder::into_string
EncodeBuilder_into_string(input, alpha, overflow_checks) ==
    Only({ Unwrap(r)
           : r \in {EncodeBuilder_into(input, alpha, "string", <<>>,
                                       overflow_checks)} })

\* EncodeBuilder::into_vec
EncodeBuilder_into_vec(input, alpha, overflow_checks) ==
    Only({ Unwrap(r)
           : r \in {EncodeBuilder_into(input, alpha, "vec", <<>>,
                                       overflow_checks)} })

(***************************************************************************)
(* The decode engine: decode_into(input, output, alpha).                   *)
(* The accumulator lives in output[..index], least significant byte first. *)
(***************************************************************************)
\* a variant of DecodePassStep that drops the incoming digit or carry
DecodePassStep_NoCarryIn(output, j, val, len) ==
    Only({ [output |-> [output EXCEPT ![j + 1] = v % 256],
            val    |-> v \div 256]
           : v \in {output[j + 1] * len} })

\* one slot of `for byte in &mut output[..index]`: slot j (0-based)
DecodePassStep(output, j, val, len) ==
    Only({ [output |-> [output EXCEPT ![j + 1] = v % 256],
            val    |-> v \div 256]
           : v \in {val + output[j + 1] * len} })

\* a variant of DecodePass that also runs over the slot at `index`, which
\* this call has not written yet
RECURSIVE DecodePass_OneMore(_, _, _, _, _)
DecodePass_OneMore(output, j, index, val, len) ==
    IF j > index \/ j >= Len(output)
    THEN [output |-> output, val |-> val]
    ELSE Only({ DecodePass_OneMore(s.output, j + 1, index, s.val, len)
                : s \in {DecodePassStep(output, j, val, len)} })

\* `for byte in &mut output[..index]`: multiply by len and add val
RECURSIVE DecodePass(_, _, _, _, _)
DecodePass(output, j, index, val, len) ==
    IF j >= index
    THEN [output |-> output, val |-> val]
    ELSE Only({ DecodePass(s.output, j + 1, index, s.val, len)
                : s \in {DecodePassStep(output, j, val, len)} })

\* a variant of DecodeAppend that asks for one spare byte before it appends
RECURSIVE DecodeAppend_SpareByte(_, _, _)
DecodeAppend_SpareByte(output, index, val) ==
    IF val <= 0
    THEN [tag |-> "run", output |-> output, index |-> index]
    ELSE IF index + 1 >= Len(output)
    THEN [tag |-> "BufferTooSmall", output |-> output, index |-> index]
    ELSE Only({ DecodeAppend_SpareByte(o, index + 1, val \div 256)
                : o \in {[output EXCEPT ![index + 1] = val % 256]} })

\* `while val > 0`: append the remaining carry, `output.get_mut(index)`
RECURSIVE DecodeAppend(_, _, _)
DecodeAppend(output, index, val) ==
    IF val <= 0
    THEN [tag |-> "run", output |-> output, index |-> index]
    ELSE IF index >= Len(output)
    THEN [tag |-> "BufferTooSmall", output |-> output, index |-> index]
    ELSE Only({ DecodeAppend(o, index + 1, val \div 256)
                : o \in {[output EXCEPT ![index + 1] = val % 256]} })

\* the body of `for (i, c) in input.iter().enumerate()`
DecodeChar(i, c, output, index, alpha) ==
    IF c > 127
    THEN [tag |-> "NonAsciiCharacter", index |-> index, output |-> output,
          character |-> c, at |-> i]
    ELSE IF alpha.decode[c] = 255
    THEN [tag |-> "InvalidCharacter", index |-> index, output |-> output,
          character |-> c, at |-> i]
    ELSE Only({ Only({ [tag |-> a.tag, index |-> a.index, output |-> a.output,
                        character |-> c, at |-> i]
                       : a \in {DecodeAppend(p.output, index, p.val)} })
                : p \in {DecodePass(output, 0, index, alpha.decode[c],
                                    alpha_len(alpha))} })

\* `for (i, c) in input.iter().enumerate()`, from input position i
RECURSIVE DecodeChars(_, _, _, _, _)
DecodeChars(input, i, output, index, alpha) ==
    IF i >= Len(input)
    THEN [tag |-> "run", index |-> index, output |-> output,
          character |-> 0, at |-> i]
    ELSE Only({ IF a.tag # "run" THEN a
                ELSE DecodeChars(input, i + 1, a.output, a.index, alpha)
                : a \in {DecodeChar(i, input[i + 1], output, index, alpha)} })

\* `for _ in input.iter().take_while(|c| **c == zero)`: n zero bytes to append
RECURSIVE DecodeLeadingZeros(_, _, _)
DecodeLeadingZeros(n, output, index) ==
    IF n = 0
    THEN [tag |-> "run", output |-> output, index |-> index]
    ELSE IF index >= Len(output)
    THEN [tag |-> "BufferTooSmall", output |-> output, index |-> index]
    ELSE Only({ DecodeLeadingZeros(n - 1, o, index + 1)
                : o \in {[output EXCEPT ![index + 1] = 0]} })

\* a variant of DecodeFinish that reports the accumulator length as the
\* position of the offending character
DecodeFinish_WrongIndex(a, input, zero) ==
    IF a.tag \in {"NonAsciiCharacter", "InvalidCharacter"}
    THEN [tag |-> a.tag, len |-> 0, output |-> a.output,
          character |-> a.character, index |-> a.index]
    ELSE IF a.tag # "run"
    THEN [tag |-> a.tag, len |-> 0, output |-> a.output]
    ELSE Only({ IF z.tag # "run"
                THEN [tag |-> z.tag, len |-> 0, output |-> z.output]
                ELSE [tag |-> "Ok", len |-> z.index,
                      output |-> ReversePrefix(z.output, z.index)]
                : z \in {DecodeLeadingZeros(TakeWhileEq(input, zero),
                                            a.output, a.index)} })

\* decode_into after the loop over the input: leading zeros, reverse
DecodeFinish(a, input, zero) ==
    IF a.tag \in {"NonAsciiCharacter", "InvalidCharacter"}
    THEN [tag |-> a.tag, len |-> 0, output |-> a.output,
          character |-> a.character, index |-> a.at]
    ELSE IF a.tag # "run"
    THEN [tag |-> a.tag, len |-> 0, output |-> a.output]
    ELSE Only({ IF z.tag # "run"
                THEN [tag |-> z.tag, len |-> 0, output |-> z.output]
                ELSE [tag |-> "Ok", len |-> z.index,
                      output |-> ReversePrefix(z.output, z.index)]
                : z \in {DecodeLeadingZeros(TakeWhileEq(input, zero),
                                            a.output, a.index)} })

\* decode_into; `let zero = encode[0]` is a checked index
decode_into(input, output, alpha) ==
    IF alpha_len(alpha) = 0
    THEN [tag |-> "Panic", len |-> 0, output |-> output]
    ELSE Only({ DecodeFinish(a, input, alpha.encode[1])
                : a \in {DecodeChars(input, 0, output, 0, alpha)} })

\* DecodeBuilder::into(self, output)
DecodeBuilder_into(input, alpha, output) == decode_into(input, output, alpha)

\* a variant of DecodeBuilder::into_vec whose vector is one byte shorter than
\* the input
DecodeBuilder_into_vec_ShortVec(input, alpha) ==
    Only({ IF r.tag = "Ok"
           THEN [tag |-> "Ok", len |-> r.len, output |-> Take(r.output, r.len)]
           ELSE [r EXCEPT !.output = <<>>]
           : r \in {DecodeBuilder_into(input, alpha, Repeat(0, Len(input) - 1))} })

\* DecodeBuilder::into_vec
DecodeBuilder_into_vec(input, alpha) ==
    Only({ IF r.tag = "Ok"
           THEN [tag |-> "Ok", len |-> r.len, output |-> Take(r.output, r.len)]
           ELSE [r EXCEPT !.output = <<>>]
           : r \in {DecodeBuilder_into(input, alpha, Repeat(0, Len(input)))} })

(***************************************************************************)
(* The state machine: a caller constructs an alphabet, makes one encode or *)
(* decode call with it and may feed the result back through the opposite   *)
(* call (the round trips of the crate documentation).                      *)
(***************************************************************************)
VARIABLES
    pc,        \* "start", "ready", "called", "done" or "panicked"
    construct, \* the constructor that was called and the symbols it was given
    alphabet,  \* the result of the alphabet constructor
    call,      \* the first call: its operation, input and destination
    ret,       \* what the first call returned, and the destination after it
    call2,     \* the chained call on the first call's output
    ret2       \* what the chained call returned

vars == <<pc, construct, alphabet, call, ret, call2, ret2>>

None == [tag |-> "None"]
NoCall == [op |-> "none"]
NoConstruct == [how |-> "none", base |-> <<>>]

\* all sequences over S of length at most n
SeqsUpTo(S, n) == UNION {[1..k -> S] : k \in 0..n}

\* byte values used in encode inputs
ByteVals == {0, 1, 57, 58, 97, 255}

\* characters used in decode inputs: '1', '2', 'g', '!' and a non-ASCII byte
CharVals == {49, 50, 103, 33, 200}

\* bytes a caller's buffer holds before the call: NUL and '~'
FillVals == {0, 126}

EncodeInputs == SeqsUpTo(ByteVals, MaxInputLen)
DecodeInputs == SeqsUpTo(CharVals, MaxStrLen)
Buffers == {Repeat(f, c) : f \in FillVals, c \in 0..MaxCap}

\* contents of a caller's str with characters of two, three and four bytes,
\* alone, after and before another character
StrContents ==
    { <<195, 169>>, <<126, 195, 169>>, <<226, 130, 172>>,
      <<240, 159, 152, 128>>,
      <<195, 169, 195, 169>>, <<226, 130, 172, 126>> }

\* the destinations a caller can pass for each kind of EncodeTarget
TargetBuffers(kind) == IF kind = "str" THEN Buffers \cup StrContents ELSE Buffers

\* bytes of the short symbol lists: '1', '2' and a non-ASCII byte
BaseVals == {49, 50, 200}

\* symbol lists handed to the constructors: radix 0, 1, 2, 3, 4 and 64
\* ('1' to 'p'), "aa", [b'a', 255], and every list over BaseVals of at most
\* MaxBaseLen symbols, with duplicates and non-ASCII bytes in every order
Bases ==
    { <<>>, <<49>>, <<49, 50>>, <<49, 50, 103>>, <<49, 50, 103, 122>>,
      [k \in 1..64 |-> 48 + k],
      <<97, 97>>, <<97, 255>> }
    \cup SeqsUpTo(BaseVals, MaxBaseLen)

Init ==
    /\ pc = "start"
    /\ construct = NoConstruct
    /\ alphabet = None
    /\ call = NoCall
    /\ ret = None
    /\ call2 = NoCall
    /\ ret2 = None

AfterCall(r) == IF r.tag = "Panic" THEN "panicked" ELSE "called"

\* bsx::DynamicAlphabet::new(base)
NewDynamicAlphabet ==
    /\ pc = "start"
    /\ \E base \in Bases :
        /\ construct' = [how |-> "DynamicAlphabet::new", base |-> base]
        /\ alphabet' = DynamicAlphabet_new(base)
        /\ pc' = IF alphabet'.tag = "Ok" THEN "ready" ELSE "done"
    /\ UNCHANGED <<call, ret, call2, ret2>>

\* bsx::StaticAlphabet::new(base)
NewStaticAlphabet ==
    /\ pc = "start"
    /\ \E base \in Bases :
        /\ construct' = [how |-> "StaticAlphabet::new", base |-> base]
        /\ alphabet' = StaticAlphabet_new(base)
        /\ pc' = IF alphabet'.tag = "Ok" THEN "ready" ELSE "done"
    /\ UNCHANGED <<call, ret, call2, ret2>>

\* bsx::StaticAlphabet::BITCOIN
UseBitcoin ==
    /\ pc = "start"
    /\ construct' = [how |-> "BITCOIN", base |-> BITCOIN_BASE]
    /\ alphabet' = BITCOIN
    /\ pc' = "ready"
    /\ UNCHANGED <<call, ret, call2, ret2>>

\* bsx::encode(input).with_alphabet(alphabet).into_string()
EncodeIntoString ==
    /\ pc = "ready"
    /\ \E input \in EncodeInputs, overflow_checks \in BOOLEAN :
        /\ call' = [op |-> "encode_into_string", input |-> input, kind |-> "string",
                    output |-> <<>>]
        /\ ret' = EncodeBuilder_into_string(input, alphabet, overflow_checks)
        /\ pc' = AfterCall(ret')
    /\ UNCHANGED <<construct, alphabet, call2, ret2>>

\* bsx::encode(input).with_alphabet(alphabet).into_vec()
EncodeIntoVec ==
    /\ pc = "ready"
    /\ \E input \in EncodeInputs, overflow_checks \in BOOLEAN :
        /\ call' = [op |-> "encode_into_vec", input |-> input, kind |-> "vec",
                    output |-> <<>>]
        /\ ret' = EncodeBuilder_into_vec(input, alphabet, overflow_checks)
        /\ pc' = AfterCall(ret')
    /\ UNCHANGED <<construct, alphabet, call2, ret2>>

\* bsx::encode(input).with_alphabet(alphabet).into(&mut output)
EncodeInto ==
    /\ pc = "ready"
    /\ \E input \in EncodeInputs, overflow_checks \in BOOLEAN,
          kind \in {"vec", "string", "slice", "str"} :
       \E output \in TargetBuffers(kind) :
        /\ call' = [op |-> "encode_into", input |-> input, kind |-> kind,
                    output |-> output]
        /\ ret' = EncodeBuilder_into(input, alphabet, kind, output, overflow_checks)
        /\ pc' = AfterCall(ret')
    /\ UNCHANGED <<construct, alphabet, call2, ret2>>

\* bsx::decode(input).with_alphabet(alphabet).into_vec()
DecodeIntoVec ==
    /\ pc = "ready"
    /\ \E input \in DecodeInputs :
        /\ call' = [op |-> "decode_into_vec", input |-> input, kind |-> "vec",
                    output |-> <<>>]
        /\ ret' = DecodeBuilder_into_vec(input, alphabet)
        /\ pc' = AfterCall(ret')
    /\ UNCHANGED <<construct, alphabet, call2, ret2>>

\* bsx::decode(input).with_alphabet(alphabet).into(&mut output)
DecodeInto ==
    /\ pc = "ready"
    /\ \E input \in DecodeInputs, output \in Buffers :
        /\ call' = [op |-> "decode_into", input |-> input, kind |-> "slice",
                    output |-> output]
        /\ ret' = DecodeBuilder_into(input, alphabet, output)
        /\ pc' = AfterCall(ret')
    /\ UNCHANGED <<construct, alphabet, call2, ret2>>

\* decode(encoded).into_vec() on the text a successful encode returned
DecodeEncoded ==
    /\ pc = "called"
    /\ call.op \in {"encode_into_string", "encode_into_vec"}
    /\ ret.tag = "Ok"
    /\ call2' = [op |-> "decode_into_vec", input |-> ret.output]
    /\ ret2' = DecodeBuilder_into_vec(ret.output, alphabet)
    /\ pc' = IF ret2'.tag = "Panic" THEN "panicked" ELSE "done"
    /\ UNCHANGED <<construct, alphabet, call, ret>>

\* encode(decoded).into_string() on the bytes a successful decode returned
EncodeDecoded ==
    /\ pc = "called"
    /\ call.op = "decode_into_vec"
    /\ ret.tag = "Ok"
    /\ \E overflow_checks \in BOOLEAN :
        /\ call2' = [op |-> "encode_into_string", input |-> ret.output]
        /\ ret2' = EncodeBuilder_into_string(ret.output, alphabet, overflow_checks)
        /\ pc' = IF ret2'.tag = "Panic" THEN "panicked" ELSE "done"
    /\ UNCHANGED <<construct, alphabet, call, ret>>

Next ==
    \/ NewDynamicAlphabet
    \/ NewStaticAlphabet
    \/ UseBitcoin
    \/ EncodeIntoString
    \/ EncodeIntoVec
    \/ EncodeInto
    \/ DecodeIntoVec
    \/ DecodeInto
    \/ DecodeEncoded
    \/ EncodeDecoded

Spec == Init /\ [][Next]_vars

(***************************************************************************)
(* Reference definitions used by the properties: positional notation,      *)
(* written without reference to the engines above.                         *)
(***************************************************************************)
\* the radices the codec is specified for
ProperRadix == alphabet.tag = "Ok" /\ Len(alphabet.encode) >= 2

\* the number of leading elements of s equal to x
LeadingCount(s, x) ==
    CHOOSE n \in 0..Len(s) :
        /\ \A k \in 1..n : s[k] = x
        /\ (n = Len(s) \/ s[n + 1] # x)

\* the integer whose base-N digits, most significant first, are ds
RECURSIVE ValueOf(_, _)
ValueOf(ds, N) ==
    IF ds = <<>> THEN 0
    ELSE ValueOf(SubSeq(ds, 1, Len(ds) - 1), N) * N + ds[Len(ds)]

\* the base-N digits of v, most significant first, none for v = 0 (N >= 2)
RECURSIVE DigitsOf(_, _)
DigitsOf(v, N) ==
    IF v = 0 THEN <<>> ELSE Append(DigitsOf(v \div N, N), v % N)

\* whether byte c is a symbol of the alphabet, and which digit it stands for
IsSymbol(c, symbols) == \E k \in 1..Len(symbols) : symbols[k] = c
DigitOfSymbol(c, symbols) == (CHOOSE k \in 1..Len(symbols) : symbols[k] = c) - 1

\* the text of bytes b: leading zero symbols, then the digits of b's value
RefEncode(b, symbols) ==
    LET ds == DigitsOf(ValueOf(b, 256), Len(symbols))
    IN  Repeat(symbols[1], LeadingCount(b, 0))
        \o [k \in 1..Len(ds) |-> symbols[ds[k] + 1]]

\* the bytes of text s (all of whose characters are symbols)
RefDecode(s, symbols) ==
    LET ds == [k \in 1..Len(s) |-> DigitOfSymbol(s[k], symbols)]
    IN  Repeat(0, LeadingCount(s, symbols[1]))
        \o DigitsOf(ValueOf(ds, Len(symbols)), 256)

AllSymbols(s, symbols) == \A k \in 1..Len(s) : IsSymbol(s[k], symbols)

IsEncodeNew(c) == c.op \in {"encode_into_string", "encode_into_vec"}

(***************************************************************************)
(* Properties.                                                             *)
(***************************************************************************)

\* C1: for every byte sequence b and every alphabet the constructor
\* accepts, encoding b into a new string succeeds, and decoding that string
\* with the same alphabet into a new vector succeeds and returns exactly b.
C1_RoundTrip ==
    /\ (call.op = "encode_into_string" => ret.tag = "Ok")
    /\ (call.op = "encode_into_string" /\ call2.op = "decode_into_vec"
            => ret2.tag = "Ok" /\ ret2.output = call.input)

\* C1 restricted to radix >= 2, where the round trip does hold
C1_RoundTripProperRadix == ProperRadix => C1_RoundTrip

\* C2: for every alphabet a and every symbol string s that decodes
\* successfully with a, encoding the decoded bytes with a succeeds and
\* reproduces s exactly.
C2_ReverseRoundTrip ==
    call.op = "decode_into_vec" /\ ret.tag = "Ok" /\ call2.op = "encode_into_string"
        => ret2.tag = "Ok" /\ ret2.output = call.input

\* C2 restricted to radix >= 2, where the reverse round trip does hold
C2_ReverseRoundTripProperRadix == ProperRadix => C2_ReverseRoundTrip

\* C3: for input bytes b with z leading zero bytes and an alphabet of radix
\* N, the encoded output is z copies of the zero symbol followed by the
\* base-N digits, most significant first and without a leading zero digit,
\* of the big-endian value of b (no digits when the value is 0), each mapped
\* through the encode table; the returned length is the number of symbols.
C3_EncodeMatchesReference ==
    ProperRadix =>
        /\ (IsEncodeNew(call) \/ (call.op = "encode_into" /\ call.kind \in {"vec", "string"})
                => /\ ret.tag = "Ok"
                   /\ ret.output = RefEncode(call.input, alphabet.encode)
                   /\ ret.len = Len(ret.output))
        /\ (call.op = "encode_into" /\ ret.tag = "Ok"
                => /\ Take(ret.output, ret.len) = RefEncode(call.input, alphabet.encode))
        /\ (call2.op = "encode_into_string"
                => /\ ret2.tag = "Ok"
                   /\ ret2.output = RefEncode(call2.input, alphabet.encode)
                   /\ ret2.len = Len(ret2.output))

\* [0x61] with the Bitcoin alphabet gives "2g"
C3_Witness ==
    /\ alphabet = BITCOIN
    /\ call.op = "encode_into_string"
    /\ call.input = <<97>>
    /\ ret.tag = "Ok" /\ ret.output = <<50, 103>> /\ ret.len = 2

\* C4: for a string s made only of alphabet symbols, with z leading zero
\* symbols, decoding into a large enough buffer returns z zero bytes followed
\* by the minimal big-endian bytes of the integer whose base-N digits are
\* the symbols of s (no bytes when that integer is 0).
C4_DecodeMatchesReference ==
    ProperRadix =>
        /\ (call.op = "decode_into_vec" /\ AllSymbols(call.input, alphabet.encode)
                => /\ ret.tag = "Ok"
                   /\ ret.output = RefDecode(call.input, alphabet.encode)
                   /\ ret.len = Len(ret.output))
        /\ (call.op = "decode_into" /\ AllSymbols(call.input, alphabet.encode)
              /\ Len(call.output) >= Len(RefDecode(call.input, alphabet.encode))
                => /\ ret.tag = "Ok"
                   /\ Take(ret.output, ret.len) = RefDecode(call.input, alphabet.encode))
        /\ (call2.op = "decode_into_vec"
                => /\ ret2.tag = "Ok"
                   /\ ret2.output = RefDecode(call2.input, alphabet.encode))

\* "2g" with the Bitcoin alphabet decodes to [0x61], and a string of zero
\* symbols only is reached as well
C4_Witness ==
    /\ alphabet = BITCOIN
    /\ call.op = "decode_into_vec"
    /\ \/ call.input = <<50, 103>> /\ ret.tag = "Ok" /\ ret.output = <<97>>
       \/ call.input = <<49, 49>> /\ ret.tag = "Ok" /\ ret.output = <<0, 0>>

\* C5: for every n >= 0 and every byte sequence d whose first byte is
\* nonzero, encode(n zero bytes ++ d) is n copies of the zero symbol followed
\* by encode(d), and encode(d) does not start with the zero symbol.
C5_LeadingZerosPreserved ==
    ProperRadix /\ IsEncodeNew(call) =>
        LET n == LeadingCount(call.input, 0)
            d == Drop(call.input, n)
            e == EncodeBuilder_into_vec(d, alphabet, TRUE)
        IN  d # <<>> =>
                /\ ret.tag = "Ok" /\ e.tag = "Ok"
                /\ ret.output = Repeat(alphabet.encode[1], n) \o e.output
                /\ e.output # <<>>
                /\ e.output[1] # alphabet.encode[1]

\* one zero byte before 0x61 gives "1" before "2g"
C5_Witness ==
    /\ alphabet = BITCOIN
    /\ call.op = "encode_into_vec"
    /\ call.input = <<0, 97>>
    /\ ret.tag = "Ok" /\ ret.output = <<49, 50, 103>>

\* C6: for every alphabet the constructor accepts, encoding the empty byte
\* sequence yields the empty string and decoding the empty string yields the
\* empty byte sequence, both with Ok(0), for growable and fixed destinations
\* (a zero-capacity buffer included).
C6_EmptyInput ==
    alphabet.tag = "Ok" /\ call.op # "none" /\ call.input = <<>> =>
        /\ ret.tag = "Ok"
        /\ ret.len = 0
        /\ (call.kind \in {"vec", "string"} => ret.output = <<>>)

\* C6 restricted to radix >= 2, where empty input does give Ok(0)
C6_EmptyInputProperRadix == ProperRadix => C6_EmptyInput

\* C7: decoding into a new vector fails exactly when the input holds a byte
\* that is >= 128 or not a symbol; the error is for the smallest such index
\* i: NonAsciiCharacter{i} if input[i] >= 128, else
\* InvalidCharacter{input[i], i}.
C7_DecodeValidation ==
    ProperRadix /\ call.op = "decode_into_vec" =>
        LET input == call.input
            bad == {i \in 0..(Len(input) - 1) :
                      input[i + 1] >= 128 \/ ~IsSymbol(input[i + 1], alphabet.encode)}
        IN  IF bad = {}
            THEN ret.tag = "Ok"
            ELSE LET i == CHOOSE m \in bad : \A o \in bad : m <= o
                 IN  IF input[i + 1] >= 128
                     THEN ret.tag = "NonAsciiCharacter" /\ ret.index = i
                     ELSE /\ ret.tag = "InvalidCharacter"
                          /\ ret.character = input[i + 1]
                          /\ ret.index = i

\* '!' at index 1 is reported although a non-ASCII byte follows at index 2,
\* after one byte has been accumulated
C7_Witness ==
    /\ ProperRadix
    /\ call.op = "decode_into_vec"
    /\ call.input = <<50, 33, 200>>
    /\ ret.tag = "InvalidCharacter" /\ ret.character = 33 /\ ret.index = 1

\* C8: for every string s made only of alphabet symbols and every buffer
\* capacity c, decode(s).into(buffer) returns Ok(true decoded length) if c is
\* at least the true decoded length and BufferTooSmall otherwise.
C8_DecodeFixedBuffer ==
    ProperRadix /\ call.op = "decode_into"
      /\ AllSymbols(call.input, alphabet.encode) =>
        LET truelen == Len(RefDecode(call.input, alphabet.encode))
        IN  IF Len(call.output) >= truelen
            THEN ret.tag = "Ok" /\ ret.len = truelen
            ELSE ret.tag = "BufferTooSmall"

\* a buffer of exactly the decoded length, two bytes or more, is accepted
C8_Witness ==
    /\ ProperRadix
    /\ call.op = "decode_into"
    /\ AllSymbols(call.input, alphabet.encode)
    /\ Len(call.output) = Len(RefDecode(call.input, alphabet.encode))
    /\ Len(call.output) >= 2
    /\ ret.tag = "Ok"

\* C9: encoding into a fixed-capacity destination (byte slice or str), for
\* every input b and capacity c, returns Ok(encoded length) if c is at least
\* the encoded length of b and BufferTooSmall otherwise; the destination keeps
\* its length, and a buffer of exactly the encoded length succeeds.
C9_EncodeFixedBuffer ==
    ProperRadix /\ call.op = "encode_into" /\ call.kind \in {"slice", "str"} =>
        LET enclen == Len(RefEncode(call.input, alphabet.encode))
        IN  /\ Len(ret.output) = Len(call.output)
            /\ IF Len(call.output) >= enclen
               THEN ret.tag = "Ok" /\ ret.len = enclen
               ELSE ret.tag = "BufferTooSmall"

\* a str of exactly the encoded length, two symbols or more, is accepted
C9_Witness ==
    /\ ProperRadix
    /\ call.op = "encode_into" /\ call.kind = "str"
    /\ Len(call.output) = Len(RefEncode(call.input, alphabet.encode))
    /\ Len(call.output) >= 2
    /\ ret.tag = "Ok"

\* C10: encoding into a growable destination never fails with
\* BufferTooSmall, for every input and every alphabet the constructor
\* accepts, so the unwrap in into_string and into_vec never fires.
C10_GrowableNeverTooSmall ==
    alphabet.tag = "Ok" =>
        /\ (call.op = "encode_into" /\ call.kind \in {"vec", "string"}
                => ret.tag # "BufferTooSmall")
        /\ (IsEncodeNew(call) => "unwrap_err" \notin DOMAIN ret)
        /\ (call2.op = "encode_into_string" => "unwrap_err" \notin DOMAIN ret2)

\* C10 restricted to radix >= 2, where the estimate is always large enough
C10_GrowableProperRadix == ProperRadix => C10_GrowableNeverTooSmall

\* C11: decoding into a new vector never fails with BufferTooSmall, for
\* every alphabet and every input string: the vector of input-length bytes is
\* long enough for the accumulator and the leading zero bytes; the only
\* errors into_vec returns are InvalidCharacter and NonAsciiCharacter.
C11_DecodeVecNeverTooSmall ==
    /\ (call.op = "decode_into_vec"
            => ret.tag \in {"Ok", "InvalidCharacter", "NonAsciiCharacter", "Panic"})
    /\ (call2.op = "decode_into_vec"
            => ret2.tag \in {"Ok", "InvalidCharacter", "NonAsciiCharacter", "Panic"})

\* a decode that fills the whole vector: as many bytes out as characters in
C11_Witness ==
    /\ call.op = "decode_into_vec"
    /\ ret.tag = "Ok"
    /\ Len(call.input) >= 2
    /\ Len(ret.output) = Len(call.input)

\* C12: alphabet construction validates left to right: it succeeds iff every
\* symbol is < 128 and all symbols are pairwise distinct; otherwise it
\* returns the error for the smallest index i at which symbols[i] >= 128
\* (NonAsciiCharacter{i}) or symbols[i] equals an earlier symbol
\* (DuplicateCharacter{symbols[i], earliest occurrence of it, i}).
C12_ConstructionValidates ==
    construct.how \in {"DynamicAlphabet::new", "StaticAlphabet::new"} =>
        LET symbols == construct.base
            bad == {i \in 0..(Len(symbols) - 1) :
                      \/ symbols[i + 1] >= 128
                      \/ \E j \in 0..(i - 1) : symbols[j + 1] = symbols[i + 1]}
        IN  IF bad = {}
            THEN alphabet.tag = "Ok"
            ELSE LET i == CHOOSE m \in bad : \A o \in bad : m <= o
                     same == {j \in 0..(i - 1) : symbols[j + 1] = symbols[i + 1]}
                 IN  IF symbols[i + 1] >= 128
                     THEN alphabet.tag = "NonAsciiCharacter" /\ alphabet.index = i
                     ELSE /\ alphabet.tag = "DuplicateCharacter"
                          /\ alphabet.character = symbols[i + 1]
                          /\ alphabet.first = (CHOOSE m \in same : \A o \in same : m <= o)
                          /\ alphabet.second = i

\* "122" followed by nothing: the duplicate '2' is first seen at index 1 and
\* again at index 2
C12_Witness ==
    /\ construct.how = "DynamicAlphabet::new"
    /\ construct.base = <<49, 50, 50>>
    /\ alphabet.tag = "DuplicateCharacter"
    /\ alphabet.character = 50 /\ alphabet.first = 1 /\ alphabet.second = 2

\* C13: every successfully constructed alphabet (static or dynamic) has the
\* supplied symbols as its encode table, decode_table[encode_table[i]] = i
\* for every digit i < N, and the absent marker 0xFF at every ASCII byte that
\* is not a symbol.
C13_TablesAreInverse ==
    construct.how # "none" /\ alphabet.tag = "Ok" =>
        /\ alphabet.encode = construct.base
        /\ DOMAIN alphabet.decode = 0..127
        /\ \A i \in 0..(Len(alphabet.encode) - 1) :
               alphabet.decode[alphabet.encode[i + 1]] = i
        /\ \A c \in 0..127 :
               (\A k \in 1..Len(construct.base) : construct.base[k] # c)
                   => alphabet.decode[c] = 255

\* a static alphabet of 64 symbols was constructed
C13_Witness ==
    /\ construct.how = "StaticAlphabet::new"
    /\ alphabet.tag = "Ok"
    /\ Len(alphabet.encode) = 64

\* C14: decode into a fixed buffer leaves the tail untouched: when
\* decode(...).into(buffer) returns Ok(len), buffer[0..len) holds the decoded
\* bytes and every byte at a position >= len has the value it had before the
\* call.
C14_DecodeTailUntouched ==
    call.op = "decode_into" /\ ret.tag = "Ok" =>
        /\ Len(ret.output) = Len(call.output)
        /\ ret.len <= Len(call.output)
        /\ (ProperRadix =>
               Take(ret.output, ret.len) = RefDecode(call.input, alphabet.encode))
        /\ \A k \in (ret.len + 1)..Len(call.output) : ret.output[k] = call.output[k]

\* "2g" decoded into four '~' bytes: one byte written, three kept
C14_Witness ==
    /\ alphabet = BITCOIN
    /\ call.op = "decode_into"
    /\ call.input = <<50, 103>>
    /\ call.output = <<126, 126, 126, 126>>
    /\ ret.tag = "Ok" /\ ret.len = 1
    /\ ret.output = <<97, 126, 126, 126>>

\* C15: encode into a fixed byte slice leaves the tail untouched: when
\* encode(...).into(&mut bytes[..]) returns Ok(len), bytes[0..len) holds the
\* encoded symbols and every byte at a position >= len has the value it had
\* before the call.
C15_EncodeTailUntouched ==
    call.op = "encode_into" /\ call.kind = "slice" /\ ret.tag = "Ok" =>
        /\ Len(ret.output) = Len(call.output)
        /\ ret.len <= Len(call.output)
        /\ (ProperRadix =>
               Take(ret.output, ret.len) = RefEncode(call.input, alphabet.encode))
        /\ \A k \in (ret.len + 1)..Len(call.output) : ret.output[k] = call.output[k]

\* 0x61 encoded into four '~' bytes: "2g" written, two bytes kept
C15_Witness ==
    /\ alphabet = BITCOIN
    /\ call.op = "encode_into" /\ call.kind = "slice"
    /\ call.input = <<97>>
    /\ call.output = <<126, 126, 126, 126>>
    /\ ret.tag = "Ok" /\ ret.len = 2
    /\ ret.output = <<50, 103, 126, 126>>

\* C16: encoding into a fixed-capacity text buffer (&mut str) always returns
\* control with the buffer holding valid UTF-8, on the success path and on
\* the BufferTooSmall path alike, for every prior valid-UTF-8 content
\* (characters of 2, 3 and 4 bytes straddling the end of the written region
\* included).
C16_StrStaysUtf8 ==
    call.op = "encode_into" /\ call.kind = "str" /\ from_utf8_ok(call.output) =>
        /\ (ProperRadix => ret.tag \in {"Ok", "BufferTooSmall"})
        /\ (ret.tag \in {"Ok", "BufferTooSmall"} =>
               /\ Len(ret.output) = Len(call.output)
               /\ from_utf8_ok(ret.output))

\* two symbols written over the first half of a four-byte character
C16_Witness ==
    /\ ProperRadix
    /\ call.op = "encode_into" /\ call.kind = "str"
    /\ call.output = <<240, 159, 152, 128>>
    /\ ret.tag = "Ok" /\ ret.len = 2
    /\ ret.output[3] = 0 /\ ret.output[4] = 0

\* the number of continuation bytes s starts with: what is left of a
\* character cut before s
RECURSIVE ContinuationRun(_)
ContinuationRun(s) ==
    IF s = <<>> \/ ~(s[1] >= 128 /\ s[1] <= 191)
    THEN 0
    ELSE 1 + ContinuationRun(Drop(s, 1))

\* C17: repair of a &mut str destination is minimal: when encoding into a
\* str returns Ok(len), bytes [0..len) are the encoded symbols, and among the
\* bytes at positions >= len the only ones changed are the remaining bytes of
\* the character that straddled position len, which are set to 0: at most 3
\* bytes, contiguous from position len; without such a character no byte at
\* a position >= len changes.
C17_StrRepairMinimal ==
    call.op = "encode_into" /\ call.kind = "str" /\ ret.tag = "Ok" =>
        LET old  == call.output
            new  == ret.output
            len  == ret.len
            rest == ContinuationRun(Drop(old, len))
        IN  /\ Len(new) = Len(old)
            /\ (ProperRadix => Take(new, len) = RefEncode(call.input, alphabet.encode))
            /\ rest <= 3
            /\ \A k \in (len + 1)..(len + rest) : new[k] = 0
            /\ \A k \in (len + rest + 1)..Len(old) : new[k] = old[k]

\* one symbol written over the first byte of "éé": the second byte of the
\* first character is cleared and the second character is kept
C17_Witness ==
    /\ ProperRadix
    /\ call.op = "encode_into" /\ call.kind = "str"
    /\ call.output = <<195, 169, 195, 169>>
    /\ ret.tag = "Ok" /\ ret.len = 1
    /\ Drop(ret.output, 1) = <<0, 195, 169>>

\* C18: encoding into a growable destination replaces its content: after
\* encode(...).into(&mut Vec<u8>) or into(&mut String) returns Ok(len), the
\* destination's length is exactly len and its content is exactly the
\* encoded symbols, whatever it held before; nothing of the previous content
\* and no padding zero remains.
C18_GrowableReplaced ==
    call.op = "encode_into" /\ call.kind \in {"vec", "string"} /\ ret.tag = "Ok" =>
        /\ Len(ret.output) = ret.len
        /\ (ProperRadix => ret.output = RefEncode(call.input, alphabet.encode))

\* a vector holding "~~~~" receives "2g" and is two bytes long afterwards
C18_Witness ==
    /\ alphabet = BITCOIN
    /\ call.op = "encode_into" /\ call.kind = "vec"
    /\ call.input = <<97>>
    /\ call.output = <<126, 126, 126, 126>>
    /\ ret.tag = "Ok" /\ ret.len = 2
    /\ ret.output = <<50, 103>>

\* C19: all encode and decode failures are values, not aborts: for every
\* alphabet the runtime constructor accepts (any length), every input and
\* every destination, an encode call ends with Ok or BufferTooSmall and a
\* decode call ends with Ok, BufferTooSmall, InvalidCharacter or
\* NonAsciiCharacter; no call panics.
C19_NoPanic ==
    construct.how = "DynamicAlphabet::new" /\ alphabet.tag = "Ok" =>
        /\ (call.op \in {"encode_into_string", "encode_into_vec", "encode_into"}
                => ret.tag \in {"Ok", "BufferTooSmall"})
        /\ (call.op \in {"decode_into_vec", "decode_into"}
                => ret.tag \in {"Ok", "BufferTooSmall", "InvalidCharacter",
                                "NonAsciiCharacter"})
        /\ (call2.op = "encode_into_string" => ret2.tag \in {"Ok", "BufferTooSmall"})
        /\ (call2.op = "decode_into_vec"
                => ret2.tag \in {"Ok", "BufferTooSmall", "InvalidCharacter",
                                 "NonAsciiCharacter"})

\* C19 restricted to radix >= 2, where no call panics
C19_NoPanicProperRadix == ProperRadix => C19_NoPanic

\* floor(log2(N)) for 1 <= N < 512, found by search
FloorLog2(N) == CHOOSE k \in 0..8 : 2^k <= N /\ N < 2^(k + 1)

\* N is 2^k for some k >= 1
IsPowerOfTwoRadix(N) == \E k \in 1..8 : N = 2^k

\* ceil(a / b) for a >= 0, b > 0
CeilDiv(a, b) == (a + b - 1) \div b

\* an encode call, whatever its destination
IsEncodeCall(c) == c.op \in {"encode_into_string", "encode_into_vec", "encode_into"}

\* C20 (as stated): for radix 2^k (k >= 1) the maximum length that
\* EncodeBuilder::into passes to the destination for an input of n bytes
\* equals ceil(8n / k) + 1.
C20_CeilEstimate ==
    ProperRadix /\ IsPowerOfTwoRadix(Len(alphabet.encode)) /\ IsEncodeCall(call) =>
        \A overflow_checks \in BOOLEAN :
            LET m == EncodeBuilder_max_len(call.input, alphabet, overflow_checks)
            IN  /\ m.tag = "run"
                /\ m.val = CeilDiv(8 * Len(call.input),
                                   FloorLog2(Len(alphabet.encode))) + 1

\* C20 (amended): for radix N >= 2 the maximum length that
\* EncodeBuilder::into passes to the destination for an input of n bytes is
\* floor(8n / floor(log2 N)) + 1; for radix 2^k that is floor(8n / k) + 1,
\* which is at least ceil(8n / k) and equals ceil(8n / k) + 1 only when k
\* divides 8n.
C20_FloorEstimate ==
    ProperRadix /\ IsEncodeCall(call) =>
        \A overflow_checks \in BOOLEAN :
            LET n == Len(call.input)
                k == FloorLog2(Len(alphabet.encode))
                m == EncodeBuilder_max_len(call.input, alphabet, overflow_checks)
            IN  /\ m.tag = "run"
                /\ m.val = (8 * n) \div k + 1
                /\ m.val >= CeilDiv(8 * n, k)
                /\ (m.val = CeilDiv(8 * n, k) + 1 <=> (8 * n) % k = 0)

\* one byte encoded with radix 64: two slots are passed, floor(8 / 6) + 1,
\* where ceil(8 / 6) + 1 would be three
C20_Witness ==
    /\ ProperRadix
    /\ Len(alphabet.encode) = 64
    /\ call.op = "encode_into_vec"
    /\ Len(call.input) = 1
    /\ EncodeBuilder_max_len(call.input, alphabet, TRUE).val = 2
    /\ ret.tag = "Ok"

\* two results a caller cannot tell apart: the same Ok length and the same
\* bytes below it, or the same error with the same fields
SameResult(r1, r2) ==
    /\ r1.tag = r2.tag
    /\ (r1.tag = "Ok" => r1.len = r2.len /\ Take(r1.output, r1.len) = Take(r2.output, r2.len))
    /\ (r1.tag \in {"InvalidCharacter", "NonAsciiCharacter"}
            => r1.index = r2.index /\ r1.character = r2.character)

\* C21: results do not depend on what the destination held before: two
\* calls of decode(...).into (or encode(...).into) with the same input, the
\* same alphabet and fixed buffers of the same capacity but different
\* contents return the same result and, on success, identical bytes in
\* [0..length).
C21_IndependentOfContents ==
    /\ (call.op = "decode_into" =>
            \A other \in Buffers :
                Len(other) = Len(call.output) =>
                    SameResult(ret, DecodeBuilder_into(call.input, alphabet, other)))
    /\ (call.op = "encode_into" /\ call.kind \in {"slice", "str"} =>
            \E overflow_checks \in BOOLEAN :
                /\ ret = EncodeBuilder_into(call.input, alphabet, call.kind,
                                            call.output, overflow_checks)
                /\ \A other \in TargetBuffers(call.kind) :
                       Len(other) = Len(call.output) =>
                           SameResult(ret, EncodeBuilder_into(call.input, alphabet,
                                                call.kind, other, overflow_checks)))

\* three symbols decoded to two bytes in a buffer that held "~~~", while a
\* buffer of three NUL bytes exists to compare with
C21_Witness ==
    /\ ProperRadix
    /\ call.op = "decode_into"
    /\ call.output = <<126, 126, 126>>
    /\ <<0, 0, 0>> \in Buffers
    /\ Len(call.input) = 3
    /\ ret.tag = "Ok" /\ ret.len = 2

(***************************************************************************)
(* The same program, one loop iteration at a time.  The specification      *)
(* Steps walks through the constructor's scan and through the loops of     *)
(* encode_into and decode_into, so that the values the loops carry         *)
(* (index, carry, val, the partly built tables) are states.  The variables *)
(* are those of Spec; `alphabet` and `ret` hold the running frame while a  *)
(* loop is in progress (tag "run").                                        *)
(***************************************************************************)
\* all 128 ASCII bytes, starting at '2': '2' is digit 0 and '1' is digit 127
Base128 == [k \in 1..128 |-> (k + 49) % 128]

\* the same list with its first symbol once more at index 128
Base129 == [k \in 1..129 |-> (k + 49) % 128]

\* the symbol lists of Spec and the two long ones
StepBases == Bases \cup {Base128, Base129}

\* destinations of the stepped calls: 0 to MaxCap bytes of '~'
StepBuffers == {Repeat(126, c) : c \in 0..MaxCap}

\* a variant of AlphabetNewStep without the duplicate check
AlphabetNewStep_NoDuplicateCheck(how, base, a) ==
    LET c == base[a.i + 1]
    IN  IF c >= AsciiLimit
        THEN [tag |-> "NonAsciiCharacter", index |-> a.i]
        ELSE [tag |-> "run", i |-> a.i + 1,
              encode |-> IF how = "StaticAlphabet::new"
                         THEN [a.encode EXCEPT ![a.i + 1] = c]
                         ELSE a.encode,
              decode |-> [a.decode EXCEPT ![c] = a.i % 256]]

\* one iteration of the scan of StaticAlphabet::new / DynamicAlphabet::new
\* at index a.i, on the tables built so far
AlphabetNewStep(how, base, a) ==
    LET c == base[a.i + 1]
    IN  IF c >= AsciiLimit
        THEN [tag |-> "NonAsciiCharacter", index |-> a.i]
        ELSE IF a.decode[c] # Absent
        THEN [tag |-> "DuplicateCharacter", character |-> c,
              first |-> a.decode[c], second |-> a.i]
        ELSE [tag |-> "run", i |-> a.i + 1,
              encode |-> IF how = "StaticAlphabet::new"
                         THEN [a.encode EXCEPT ![a.i + 1] = c]
                         ELSE a.encode,
              decode |-> [a.decode EXCEPT ![c] = a.i % 256]]

\* entry of either constructor: `encode` is the argument (dynamic) or zeroes
\* (static), `decode` is [0xFF; 128]
StepNewBegin ==
    /\ pc = "start"
    /\ \E base \in StepBases, how \in {"DynamicAlphabet::new", "StaticAlphabet::new"} :
        /\ construct' = [how |-> how, base |-> base]
        /\ alphabet' = [tag |-> "run", i |-> 0,
                        encode |-> IF how = "StaticAlphabet::new"
                                   THEN Repeat(0, Len(base)) ELSE base,
                        decode |-> [c \in 0..(AsciiLimit - 1) |-> Absent]]
    /\ pc' = "new_loop"
    /\ UNCHANGED <<call, ret, call2, ret2>>

\* one pass through the constructor's loop, or its `Ok(Self { .. })`
StepNewLoop ==
    /\ pc = "new_loop"
    /\ IF alphabet.i >= Len(construct.base)
       THEN /\ alphabet' = [tag |-> "Ok", encode |-> alphabet.encode,
                            decode |-> alphabet.decode]
            /\ pc' = "ready"
       ELSE /\ alphabet' = AlphabetNewStep(construct.how, construct.base, alphabet)
            /\ pc' = IF alphabet'.tag = "run" THEN "new_loop" ELSE "done"
    /\ UNCHANGED <<construct, call, ret, call2, ret2>>

\* what a stepped call leaves when it ends
StepEnd(tag, len, output) == [tag |-> tag, len |-> len, output |-> output]

\* a variant of EncodeAppendStep that forgets to divide the carry it keeps
\* by the radix before the next digit
EncodeAppendStep_KeepsCarry(output, index, carry, len) ==
    [output |-> [output EXCEPT ![index + 1] = carry % 256],
     index  |-> index + 1,
     carry  |-> carry \div 256]

\* one iteration of `while carry > 0` in encode_into, after its bounds check
EncodeAppendStep(output, index, carry, len) ==
    [output |-> [output EXCEPT ![index + 1] = (carry % len) % 256],
     index  |-> index + 1,
     carry  |-> carry \div len]

\* EncodeBuilder::into on a byte slice, up to the first line of encode_into
StepEncodeBegin ==
    /\ pc = "ready"
    /\ \E input \in EncodeInputs, output \in StepBuffers,
          overflow_checks \in BOOLEAN :
        /\ call' = [op |-> "encode_steps", input |-> input, kind |-> "slice",
                    output |-> output]
        /\ IF EncodeBuilder_max_len(input, alphabet, overflow_checks).tag # "run"
           THEN /\ ret' = StepEnd("Panic", 0, output)
                /\ pc' = "panicked"
           ELSE /\ ret' = [tag |-> "run", output |-> output, index |-> 0,
                           i |-> 0, j |-> 0, carry |-> 0, zeros |-> 0]
                /\ pc' = "enc_byte"
    /\ UNCHANGED <<construct, alphabet, call2, ret2>>

\* `for &val in input`: take the next byte as the carry, or leave the loop
StepEncodeByte ==
    /\ pc = "enc_byte"
    /\ IF ret.i >= Len(call.input)
       THEN /\ ret' = [ret EXCEPT !.zeros = TakeWhileEq(call.input, 0)]
            /\ pc' = "enc_zeros"
       ELSE /\ ret' = [ret EXCEPT !.carry = call.input[ret.i + 1], !.j = 0]
            /\ pc' = "enc_pass"
    /\ UNCHANGED <<construct, alphabet, call, call2, ret2>>

\* `for byte in &mut output[..index]`: one slot
StepEncodePass ==
    /\ pc = "enc_pass"
    /\ IF ret.j >= ret.index
       THEN /\ ret' = ret
            /\ pc' = "enc_append"
       ELSE IF alpha_len(alphabet) = 0
       THEN /\ ret' = StepEnd("Panic", 0, ret.output)
            /\ pc' = "panicked"
       ELSE /\ ret' = [ret EXCEPT
                         !.output = EncodePassStep(ret.output, ret.j, ret.carry,
                                                   alpha_len(alphabet)).output,
                         !.carry = EncodePassStep(ret.output, ret.j, ret.carry,
                                                  alpha_len(alphabet)).carry,
                         !.j = ret.j + 1]
            /\ pc' = "enc_pass"
    /\ UNCHANGED <<construct, alphabet, call, call2, ret2>>

\* `while carry > 0`: one digit appended, or on to the next input byte
StepEncodeAppend ==
    /\ pc = "enc_append"
    /\ IF ret.carry <= 0
       THEN /\ ret' = [ret EXCEPT !.i = ret.i + 1]
            /\ pc' = "enc_byte"
       ELSE IF ret.index = Len(ret.output)
       THEN /\ ret' = StepEnd("BufferTooSmall", 0, ret.output)
            /\ pc' = "done"
       ELSE IF alpha_len(alphabet) = 0
       THEN /\ ret' = StepEnd("Panic", 0, ret.output)
            /\ pc' = "panicked"
       ELSE /\ ret' = [ret EXCEPT
                         !.output = EncodeAppendStep(ret.output, ret.index, ret.carry,
                                                     alpha_len(alphabet)).output,
                         !.index = EncodeAppendStep(ret.output, ret.index, ret.carry,
                                                    alpha_len(alphabet)).index,
                         !.carry = EncodeAppendStep(ret.output, ret.index, ret.carry,
                                                    alpha_len(alphabet)).carry]
            /\ pc' = "enc_append"
    /\ UNCHANGED <<construct, alphabet, call, call2, ret2>>

\* the loop over the leading zero bytes, then the symbol map and the reversal
StepEncodeZeros ==
    /\ pc = "enc_zeros"
    /\ IF ret.zeros > 0
       THEN IF ret.index = Len(ret.output)
            THEN /\ ret' = StepEnd("BufferTooSmall", 0, ret.output)
                 /\ pc' = "done"
            ELSE /\ ret' = [ret EXCEPT !.output[ret.index + 1] = 0,
                                       !.index = ret.index + 1,
                                       !.zeros = ret.zeros - 1]
                 /\ pc' = "enc_zeros"
       ELSE IF EncodeMap(ret.output, ret.index, alphabet.encode).tag # "run"
       THEN /\ ret' = StepEnd("Panic", 0, ret.output)
            /\ pc' = "panicked"
       ELSE /\ ret' = StepEnd("Ok", ret.index,
                         ReversePrefix(EncodeMap(ret.output, ret.index,
                                                 alphabet.encode).output,
                                       ret.index))
            /\ pc' = "done"
    /\ UNCHANGED <<construct, alphabet, call, call2, ret2>>

\* a variant of DecodeAppendStep that keeps half of the byte it has just
\* written as the next carry
DecodeAppendStep_KeepsBits(output, index, val) ==
    [output |-> [output EXCEPT ![index + 1] = val % 256],
     index  |-> index + 1,
     val    |-> val \div 16]

\* one iteration of `while val > 0` in decode_into, after `get_mut(index)`
DecodeAppendStep(output, index, val) ==
    [output |-> [output EXCEPT ![index + 1] = val % 256],
     index  |-> index + 1,
     val    |-> val \div 256]

\* DecodeBuilder::into, up to the loop of decode_into: `let zero = encode[0]`
StepDecodeBegin ==
    /\ pc = "ready"
    /\ \E input \in DecodeInputs, output \in StepBuffers :
        /\ call' = [op |-> "decode_steps", input |-> input, kind |-> "slice",
                    output |-> output]
        /\ IF alpha_len(alphabet) = 0
           THEN /\ ret' = StepEnd("Panic", 0, output)
                /\ pc' = "panicked"
           ELSE /\ ret' = [tag |-> "run", output |-> output, index |-> 0,
                           i |-> 0, j |-> 0, val |-> 0, zeros |-> 0]
                /\ pc' = "dec_char"
    /\ UNCHANGED <<construct, alphabet, call2, ret2>>

\* `for (i, c) in input.iter().enumerate()`: the two checks and the lookup
StepDecodeChar ==
    /\ pc = "dec_char"
    /\ IF ret.i >= Len(call.input)
       THEN /\ ret' = [ret EXCEPT
                         !.zeros = TakeWhileEq(call.input, alphabet.encode[1])]
            /\ pc' = "dec_zeros"
       ELSE IF call.input[ret.i + 1] > 127
       THEN /\ ret' = [tag |-> "NonAsciiCharacter", len |-> 0, output |-> ret.output,
                       character |-> call.input[ret.i + 1], index |-> ret.i]
            /\ pc' = "done"
       ELSE IF alphabet.decode[call.input[ret.i + 1]] = 255
       THEN /\ ret' = [tag |-> "InvalidCharacter", len |-> 0, output |-> ret.output,
                       character |-> call.input[ret.i + 1], index |-> ret.i]
            /\ pc' = "done"
       ELSE /\ ret' = [ret EXCEPT !.val = alphabet.decode[call.input[ret.i + 1]],
                                  !.j = 0]
            /\ pc' = "dec_pass"
    /\ UNCHANGED <<construct, alphabet, call, call2, ret2>>

\* `for byte in &mut output[..index]`: one byte
StepDecodePass ==
    /\ pc = "dec_pass"
    /\ IF ret.j >= ret.index
       THEN /\ ret' = ret
            /\ pc' = "dec_append"
       ELSE /\ ret' = [ret EXCEPT
                         !.output = DecodePassStep(ret.output, ret.j, ret.val,
                                                   alpha_len(alphabet)).output,
                         !.val = DecodePassStep(ret.output, ret.j, ret.val,
                                                alpha_len(alphabet)).val,
                         !.j = ret.j + 1]
            /\ pc' = "dec_pass"
    /\ UNCHANGED <<construct, alphabet, call, call2, ret2>>

\* `while val > 0`: one byte appended, or on to the next character
StepDecodeAppend ==
    /\ pc = "dec_append"
    /\ IF ret.val <= 0
       THEN /\ ret' = [ret EXCEPT !.i = ret.i + 1]
            /\ pc' = "dec_char"
       ELSE IF ret.index >= Len(ret.output)
       THEN /\ ret' = StepEnd("BufferTooSmall", 0, ret.output)
            /\ pc' = "done"
       ELSE /\ ret' = [ret EXCEPT
                         !.output = DecodeAppendStep(ret.output, ret.index,
                                                     ret.val).output,
                         !.index = DecodeAppendStep(ret.output, ret.index,
                                                    ret.val).index,
                         !.val = DecodeAppendStep(ret.output, ret.index, ret.val).val]
            /\ pc' = "dec_append"
    /\ UNCHANGED <<construct, alphabet, call, call2, ret2>>

\* the loop over the leading zero symbols, then the reversal
StepDecodeZeros ==
    /\ pc = "dec_zeros"
    /\ IF ret.zeros > 0
       THEN IF ret.index >= Len(ret.output)
            THEN /\ ret' = StepEnd("BufferTooSmall", 0, ret.output)
                 /\ pc' = "done"
            ELSE /\ ret' = [ret EXCEPT !.output[ret.index + 1] = 0,
                                       !.index = ret.index + 1,
                                       !.zeros = ret.zeros - 1]
                 /\ pc' = "dec_zeros"
       ELSE /\ ret' = StepEnd("Ok", ret.index, ReversePrefix(ret.output, ret.index))
            /\ pc' = "done"
    /\ UNCHANGED <<construct, alphabet, call, call2, ret2>>

StepNext ==
    \/ StepNewBegin
    \/ StepNewLoop
    \/ StepEncodeBegin
    \/ StepEncodeByte
    \/ StepEncodePass
    \/ StepEncodeAppend
    \/ StepEncodeZeros
    \/ StepDecodeBegin
    \/ StepDecodeChar
    \/ StepDecodePass
    \/ StepDecodeAppend
    \/ StepDecodeZeros

Steps == Init /\ [][StepNext]_vars

\* the stepped calls end as the calls of Spec do
StepsAgree ==
    /\ (pc = "ready" =>
            alphabet = IF construct.how = "StaticAlphabet::new"
                       THEN StaticAlphabet_new(construct.base)
                       ELSE DynamicAlphabet_new(construct.base))
    /\ (pc \in {"done", "panicked"} /\ call.op = "encode_steps" =>
            \E overflow_checks \in BOOLEAN :
                LET r == EncodeBuilder_into(call.input, alphabet, "slice",
                                            call.output, overflow_checks)
                IN  r.tag = ret.tag /\ r.len = ret.len
                      /\ (r.tag = "Ok" => r.output = ret.output))
    /\ (pc \in {"done", "panicked"} /\ call.op = "decode_steps" =>
            LET r == DecodeBuilder_into(call.input, alphabet, call.output)
            IN  r.tag = ret.tag /\ r.len = ret.len
                  /\ (r.tag = "Ok" => r.output = ret.output)
                  /\ (r.tag \in {"InvalidCharacter", "NonAsciiCharacter"}
                        => r.index = ret.index /\ r.character = ret.character))

\* C22: every alphabet the constructor accepts has radix at most 128 and
\* every digit value stored in its decode table is at most 127; a stored
\* digit never equals the 0xFF absent marker and the truncation to 8 bits
\* when the index is stored never changes it; a symbol of the alphabet is
\* never reported as InvalidCharacter and no repeated symbol is missed.
C22_RadixAndDigitsBounded ==
    /\ (pc = "new_loop" =>
            /\ alphabet.i <= 128
            /\ \A k \in 1..alphabet.i :
                   /\ alphabet.decode[construct.base[k]] = k - 1
                   /\ alphabet.decode[construct.base[k]] <= 127)
    /\ (alphabet.tag = "Ok" =>
            /\ Len(alphabet.encode) <= 128
            /\ \A c \in 0..127 : alphabet.decode[c] = 255 \/ alphabet.decode[c] <= 127
            /\ \A k \in 1..Len(alphabet.encode) :
                   /\ alphabet.decode[alphabet.encode[k]] = k - 1
                   /\ \A m \in 1..(k - 1) : alphabet.encode[m] # alphabet.encode[k])
    /\ (call.op = "decode_steps" /\ ret.tag = "InvalidCharacter" =>
            ~IsSymbol(ret.character, alphabet.encode))

\* with all 128 ASCII bytes as symbols, '1' is stored as digit 127 and
\* decodes to the byte 127
C22_Witness ==
    /\ alphabet.tag = "Ok"
    /\ Len(alphabet.encode) = 128
    /\ alphabet.decode[49] = 127
    /\ call.op = "decode_steps"
    /\ call.input = <<49>>
    /\ pc = "done" /\ ret.tag = "Ok" /\ ret.len = 1 /\ ret.output[1] = 127

\* C23: encode accumulator invariant: at every step before the symbol
\* mapping, each accumulator slot output[0..index) holds a digit value below
\* the radix and the running carry is below 256 after each slot update, so
\* the encode-table lookup is in bounds; after a successful encode every
\* byte of output[0..length) is a symbol of the alphabet (ASCII).
C23_EncodeAccumulator ==
    ProperRadix /\ call.op = "encode_steps" =>
        /\ pc # "panicked"
        /\ (pc \in {"enc_byte", "enc_pass", "enc_append", "enc_zeros"} =>
               \A k \in 1..ret.index : ret.output[k] < Len(alphabet.encode))
        /\ (pc \in {"enc_pass", "enc_append"} => ret.carry < 256)
        /\ (pc = "done" /\ ret.tag = "Ok" =>
               \A k \in 1..ret.len :
                   /\ IsSymbol(ret.output[k], alphabet.encode)
                   /\ ret.output[k] < 128)

\* in the pass for the second input byte, two slots have been updated and a
\* carry is left
C23_Witness ==
    /\ ProperRadix
    /\ call.op = "encode_steps"
    /\ pc = "enc_pass"
    /\ ret.i = 1 /\ ret.j = 2 /\ ret.index >= 2
    /\ ret.carry > 0

\* the value of the first i characters of a text of symbols
ValueOfPrefix(text, i, symbols) ==
    ValueOf([k \in 1..i |-> DigitOfSymbol(text[k], symbols)], Len(symbols))

\* the number of bytes of the shortest base-256 form of v
MinimalBytes(v) == Len(DigitsOf(v, 256))

\* C24: decode accumulator invariant: after each input symbol is processed,
\* index equals the minimal number of base-256 bytes of the value
\* accumulated so far (0 while the value is 0, otherwise the top byte
\* output[index-1] is nonzero); the carry leaving the multiply pass is below
\* the radix, so each symbol appends at most one byte; index never exceeds
\* the number of symbols processed.
C24_DecodeAccumulator ==
    alphabet.tag = "Ok" /\ call.op = "decode_steps" /\ ret.tag = "run" =>
        LET v == ValueOfPrefix(call.input, ret.i, alphabet.encode)
        IN  /\ (pc = "dec_char" =>
                   /\ ret.index = MinimalBytes(v)
                   /\ (v = 0 <=> ret.index = 0)
                   /\ (ret.index > 0 => ret.output[ret.index] # 0)
                   /\ ret.index <= ret.i
                   /\ \A k \in 1..ret.index :
                          ret.output[k] = DigitsOf(v, 256)[ret.index + 1 - k])
            /\ (pc = "dec_pass" /\ ret.j >= ret.index => ret.val < Len(alphabet.encode))
            /\ (pc = "dec_append" =>
                   /\ ret.val < Len(alphabet.encode)
                   /\ ret.index <= MinimalBytes(v) + 1
                   /\ (ret.index = MinimalBytes(v) + 1 => ret.val = 0))

\* the third symbol has gone through a pass over two bytes and leaves a
\* carry that becomes the third byte
C24_Witness ==
    /\ alphabet.tag = "Ok"
    /\ call.op = "decode_steps"
    /\ pc = "dec_append"
    /\ ret.tag = "run"
    /\ ret.i = 2 /\ ret.index = 2 /\ ret.val > 0

====
